---- MODULE Spec2Model ----
(***************************************************************************)
(* A model of ncfsplayground/fusenetcdf.py: the NCFS object that presents  *)
(* a NetCDF dataset as a filesystem namespace, and the serial FUSE loop    *)
(* that calls its operations.                                              *)
(*                                                                         *)
(* Python strings are modelled as sequences of one-character strings, so   *)
(* that the substring tests, lstrip and split of the source are computed   *)
(* on characters.  Exceptions are modelled as returned values of kind      *)
(* "raise".                                                                *)
(***************************************************************************)
EXTENDS Integers, Sequences, FiniteSets

VARIABLES
    dataset,     \* self.dataset: the mounted Dataset (sequence of variables)
    mount_time,  \* self.mount_time
    proc,        \* uid and gid of the hosting process (os.getuid, os.getgid)
    call,        \* the request being served, or NoCall between requests
    ret,         \* what the served operation returned or raised
    lookups,     \* the accesses to self.dataset made while serving the call
    mounted      \* history: dataset and mount_time as they were at mount

vars == <<dataset, mount_time, proc, call, ret, lookups, mounted>>

----------------------------------------------------------------------------
(* Bounds of the model                                                     *)

MaxSize == 9        \* read(): size is drawn from 0..MaxSize
MaxOffset == 10     \* read(), write(): offset is drawn from 0..MaxOffset
MaxData == 2        \* write(): data is at most MaxData bytes long
MaxMountTime == 2   \* mount_time is drawn from 1..MaxMountTime
MaxPerm == 511      \* makeIntoDir(): permission bits are drawn from 0..MaxPerm

----------------------------------------------------------------------------
(* Characters and names                                                    *)

Slash == <<"/">>
NL == <<"\n">>
Dot == <<".">>
DotDot == <<".", ".">>
DATA_REPR == <<"D", "A", "T", "A", "_", "R", "E", "P", "R">>
dimensions == <<"d", "i", "m", "e", "n", "s", "i", "o", "n", "s">>
Trash == <<".", "T", "r", "a", "s", "h">>

Min(a, b) == IF a < b THEN a ELSE b

\* needle in hay (Python's substring test on str)
Contains(needle, hay) ==
    \E i \in 0..(Len(hay) - Len(needle)) :
        SubSeq(hay, i + 1, i + Len(needle)) = needle

\* path.lstrip('/'): every leading '/' is removed
RECURSIVE lstrip(_)
lstrip(s) == IF s # <<>> /\ Head(s) = "/" THEN lstrip(Tail(s)) ELSE s

\* s.split('/', 1)[0]: the part before the first '/'
RECURSIVE split_first(_)
split_first(s) ==
    IF s = <<>> \/ Head(s) = "/" THEN <<>>
    ELSE <<Head(s)>> \o split_first(Tail(s))

\* s.split('/')[-1]: the part after the last '/'
RECURSIVE split_last(_)
split_last(s) ==
    IF s = <<>> \/ s[Len(s)] = "/" THEN <<>>
    ELSE split_last(SubSeq(s, 1, Len(s) - 1)) \o <<s[Len(s)]>>

\* s[offset:offset+size] for offset, size >= 0
Slice(s, offset, size) == SubSeq(s, offset + 1, Min(offset + size, Len(s)))

DigitChar(d) == <<"0", "1", "2", "3", "4", "5", "6", "7", "8", "9">>[d + 1]

\* decimal digits of a natural number
RECURSIVE Digits(_)
Digits(n) == IF n < 10 THEN <<DigitChar(n)>>
             ELSE Digits(n \div 10) \o <<DigitChar(n % 10)>>

RECURSIVE Flatten(_)
Flatten(ss) == IF ss = <<>> THEN <<>> ELSE Head(ss) \o Flatten(Tail(ss))

----------------------------------------------------------------------------
(* Bit operations on non-negative integers                                 *)

RECURSIVE BitAnd(_, _)
BitAnd(a, b) == IF a = 0 \/ b = 0 THEN 0
                ELSE (a % 2) * (b % 2) + 2 * BitAnd(a \div 2, b \div 2)

RECURSIVE BitOr(_, _)
BitOr(a, b) == IF a = 0 THEN b ELSE IF b = 0 THEN a
               ELSE (IF a % 2 = 1 \/ b % 2 = 1 THEN 1 ELSE 0)
                    + 2 * BitOr(a \div 2, b \div 2)

RECURSIVE BitXor(_, _)
BitXor(a, b) == IF a = 0 THEN b ELSE IF b = 0 THEN a
                ELSE ((a + b) % 2) + 2 * BitXor(a \div 2, b \div 2)

----------------------------------------------------------------------------
(* The dataset (netCDF4.Dataset as the code uses it)                       *)
(*                                                                         *)
(* dataset.variables is an ordered mapping name -> Variable; it is a       *)
(* sequence of records [name, attrs, data] with distinct names.  attrs is  *)
(* the ordered list of the variable's attributes, data its payload as a    *)
(* sequence of rows of numbers.                                            *)

StrValue(s) == [kind |-> "str", s |-> s, n |-> 0]
IntValue(n) == [kind |-> "int", s |-> <<>>, n |-> n]
Attr(name, value) == [name |-> name, value |-> value]
Var(name, attrs, data) == [name |-> name, attrs |-> attrs, data |-> data]

ndimensions == <<"n">> \o dimensions
DATA_REPR2 == DATA_REPR \o <<"2">>

\* one variable t with attribute u = "K" and payload [1.0, 2.0]
DsTemp == << Var(<<"t">>, << Attr(<<"u">>, StrValue(<<"K">>)) >>, << <<1, 2>> >>) >>
\* two variables, one without attributes and with an empty payload
DsTwo == << Var(<<"t">>, <<>>, <<>>),
            Var(<<"b">>, << Attr(<<"n">>, IntValue(12)) >>, << <<7>> >>) >>
\* a variable with an attribute whose name contains "dimensions"
DsDims == << Var(<<"t">>, << Attr(<<"u">>, StrValue(<<"K">>)),
                             Attr(ndimensions, IntValue(2)) >>, << <<1>> >>) >>
DsEmpty == <<>>

Datasets == {DsTemp, DsTwo, DsDims, DsEmpty}

\* name in dataset.variables
InVariables(ds, name) == \E i \in DOMAIN ds : ds[i].name = name
\* dataset.variables[name], for a name that is there
VariableOf(ds, name) == ds[CHOOSE i \in DOMAIN ds : ds[i].name = name]
\* the names dataset.variables iterates over, in order
VariableNames(ds) == [i \in DOMAIN ds |-> ds[i].name]
\* variable.ncattrs()
ncattrs(var) == [i \in DOMAIN var.attrs |-> var.attrs[i].name]
HasAttr(var, name) == \E i \in DOMAIN var.attrs : var.attrs[i].name = name
\* variable.getncattr(name), for a name that is there
getncattr(var, name) ==
    var.attrs[CHOOSE i \in DOMAIN var.attrs : var.attrs[i].name = name].value

ToSet(seq) == {seq[i] : i \in DOMAIN seq}

----------------------------------------------------------------------------
(* Returned values                                                         *)

Raise(e) == [kind |-> "raise", val |-> e]
Stat(d) == [kind |-> "stat", val |-> d]
List(l) == [kind |-> "list", val |-> l]
Bytes(b) == [kind |-> "str", val |-> b]
IntRet(n) == [kind |-> "int", val |-> n]
BoolRet(b) == [kind |-> "bool", val |-> b]
None == [kind |-> "None", val |-> 0]
NoRet == [kind |-> "idle", val |-> 0]

NoCall == [op |-> "idle", path |-> <<>>, size |-> 0, offset |-> 0,
           data |-> <<>>, mode |-> 0]

----------------------------------------------------------------------------
(* Data representation plugins                                             *)

\* '%f' % x for a payload element x without fractional part
FormatF(x) == Digits(x) \o <<".", "0", "0", "0", "0", "0", "0">>

\* VardataAsFlatTextFiles.__call__ with fmt = '%f'
VardataAsFlatTextFiles(variable) ==
    LET flat == Flatten(variable.data)
    IN  Flatten([i \in DOMAIN flat |-> FormatF(flat[i]) \o NL])

\* VardataAsFlatTextFiles.size
VardataAsFlatTextFiles_size(variable) == Len(VardataAsFlatTextFiles(variable))

\* str(attr)
str(value) == IF value.kind = "str" THEN value.s ELSE Digits(value.n)

\* AttributesAsTextFiles.__call__
AttributesAsTextFiles(attr) == str(attr) \o NL

\* AttributesAsTextFiles.size
AttributesAsTextFiles_size(attr) == Len(AttributesAsTextFiles(attr))

----------------------------------------------------------------------------
(* NCFS: path predicates                                                   *)
(* self is the record [dataset, mount_time].                               *)

is_var_dir(self, path) == InVariables(self.dataset, lstrip(path))

is_var_data(self, path) == Contains(DATA_REPR, path)

is_var_dimensions(self, path) == Contains(dimensions, path)

is_var_attribute(self, path) ==
    IF Contains(Trash, path) THEN FALSE
    ELSE ~(is_var_dir(self, path) \/ is_var_data(self, path)
           \/ is_var_dimensions(self, path))

exists(self, path) == TRUE

is_dir(self, path) == is_var_dir(self, path)

\* an is_blacklisted that looks for ".Trash" at the start of the path only
is_blacklisted_prefix(self, path) ==
    Len(path) >= Len(Trash) /\ SubSeq(path, 1, Len(Trash)) = Trash

is_blacklisted(self, path) == Contains(Trash, path)

is_file(self, path) == ~is_dir(self, path)

get_varname(self, path) == split_first(lstrip(path))

get_attrname(self, path) == split_last(path)

\* get_variable: the Variable, or KeyError from dataset.variables[varname]
get_variable(self, path) ==
    LET varname == get_varname(self, path)
    IN  IF InVariables(self.dataset, varname)
        THEN [kind |-> "ok", val |-> VariableOf(self.dataset, varname)]
        ELSE Raise("KeyError")

\* get_attribute: the attribute value, or KeyError from
\* dataset.variables[varname], or AttributeError from getncattr
get_attribute(self, path) ==
    LET varname == get_varname(self, path)
        attrname == get_attrname(self, path)
    IN  IF ~InVariables(self.dataset, varname) THEN Raise("KeyError")
        ELSE IF ~HasAttr(VariableOf(self.dataset, varname), attrname)
        THEN Raise("AttributeError")
        ELSE [kind |-> "ok",
              val |-> getncattr(VariableOf(self.dataset, varname), attrname)]

\* getncAttrs: called by readdir for a path that is a variable name
getncAttrs(self, path) ==
    ncattrs(VariableOf(self.dataset, get_varname(self, path)))

----------------------------------------------------------------------------
(* NCFS: operations.  Each returns [ret, trace]: the value returned or the *)
(* exception raised, and the accesses to self.dataset it made, in order.   *)

Done(r, t) == [ret |-> r, trace |-> t]

\* the [read bit, execute bit] pairs makeIntoDir loops over
RX_PAIRS == << <<256, 64>>, <<32, 8>>, <<4, 1>> >>

RECURSIVE PropagateRX(_, _)
PropagateRX(mode, pairs) ==
    IF pairs = <<>> THEN mode
    ELSE PropagateRX(IF BitAnd(mode, Head(pairs)[1]) # 0
                     THEN BitOr(mode, Head(pairs)[2]) ELSE mode,
                     Tail(pairs))

\* a makeIntoDir that sets the directory bit without clearing S_IFREG
makeIntoDir_keepreg(statdict) ==
    [statdict EXCEPT !.st_mode = PropagateRX(BitOr(statdict.st_mode, 16384),
                                             RX_PAIRS)]

\* st_mode ^ 0o100000 | 0o040000, then read => execute per class
makeIntoDir(statdict) ==
    [statdict EXCEPT !.st_mode =
        PropagateRX(BitOr(BitXor(statdict.st_mode, 32768), 16384), RX_PAIRS)]

\* the default attributes getattr starts from: a regular file
DefaultStat(self, pr) ==
    [st_atime |-> self.mount_time, st_ctime |-> self.mount_time,
     st_gid |-> pr.gid, st_mode |-> 33188, st_mtime |-> self.mount_time,
     st_nlink |-> 1, st_size |-> 4096, st_uid |-> pr.uid]

\* the dataset accesses of get_attribute
get_attribute_trace(self, path) ==
    IF InVariables(self.dataset, get_varname(self, path))
    THEN <<"variables[]", "getncattr">> ELSE <<"variables[]">>

\* the dataset accesses of is_var_attribute
is_var_attribute_trace(self, path) ==
    IF Contains(Trash, path) THEN <<>> ELSE <<"in variables">>

getattr(self, pr, path0) ==
    LET statdict == DefaultStat(self, pr)
        path == lstrip(path0)
    IN  IF path = <<>> THEN Done(Stat(makeIntoDir(statdict)), <<>>)
        ELSE IF is_blacklisted(self, path) THEN Done(Stat(statdict), <<>>)
        ELSE IF ~exists(self, path) THEN Done(Raise("ENOENT"), <<>>)
        ELSE IF is_var_dir(self, path)
        THEN Done(Stat([makeIntoDir(statdict) EXCEPT !.st_size = 4096]),
                  <<"in variables">>)
        ELSE IF is_var_attribute(self, path)
        THEN LET attr == get_attribute(self, path)
                 t == <<"in variables">> \o is_var_attribute_trace(self, path)
                      \o get_attribute_trace(self, path)
             IN  IF attr.kind = "raise" THEN Done(attr, t)
                 ELSE Done(Stat([statdict EXCEPT !.st_size =
                                    AttributesAsTextFiles_size(attr.val)]), t)
        ELSE IF is_var_data(self, path)
        THEN LET var == get_variable(self, path)
                 t == <<"in variables">> \o is_var_attribute_trace(self, path)
                      \o <<"variables[]">>
             IN  IF var.kind = "raise" THEN Done(var, t)
                 ELSE Done(Stat([statdict EXCEPT !.st_size =
                                    VardataAsFlatTextFiles_size(var.val)]),
                           t \o <<"variable[:]">>)
        ELSE Done(Raise("InternalError"),
                  <<"in variables">> \o is_var_attribute_trace(self, path))

\* item.encode('utf-8') of a name of ASCII characters: one byte per character
encode_utf8(item) == [i \in DOMAIN item |-> item[i]]

\* a readdir that leaves the data entry out of a variable's listing
readdir_nodata(self, path0) ==
    LET path == lstrip(path0)
    IN  IF path = <<>>
        THEN Done(List(<<Dot, DotDot>> \o VariableNames(self.dataset)),
                  <<"iter variables">>)
        ELSE IF InVariables(self.dataset, path)
        THEN Done(List(<<Dot, DotDot>> \o getncAttrs(self, path)),
                  <<"in variables", "variables[]", "ncattrs">>)
        ELSE Done(List(<<Dot, DotDot>>), <<"in variables">>)

readdir(self, path0) ==
    LET path == lstrip(path0)
        names == VariableNames(self.dataset)
    IN  IF path = <<>>
        THEN Done(List(<<Dot, DotDot>>
                       \o [i \in DOMAIN names |-> encode_utf8(names[i])]),
                  <<"iter variables">>)
        ELSE IF InVariables(self.dataset, path)
        THEN Done(List(<<Dot, DotDot>> \o getncAttrs(self, path)
                       \o <<DATA_REPR>>),
                  <<"in variables", "variables[]", "ncattrs">>)
        ELSE Done(List(<<Dot, DotDot>>), <<"in variables">>)

\* open: the name FuseOSOSError is not defined, so the raise statement
\* itself raises NameError
open(self, path, flags) ==
    IF ~is_file(self, path) THEN Done(Raise("NameError"), <<"in variables">>)
    ELSE Done(IntRet(0), <<"in variables">>)

read(self, path, size, offset) ==
    IF is_var_attribute(self, path)
    THEN LET attr == get_attribute(self, path)
             t == is_var_attribute_trace(self, path)
                  \o get_attribute_trace(self, path)
         IN  IF attr.kind = "raise" THEN Done(attr, t)
             ELSE Done(Bytes(Slice(AttributesAsTextFiles(attr.val),
                                   offset, size)), t)
    ELSE IF is_var_data(self, path)
    THEN LET var == get_variable(self, path)
             t == is_var_attribute_trace(self, path) \o <<"variables[]">>
         IN  IF var.kind = "raise" THEN Done(var, t)
             ELSE Done(Bytes(Slice(VardataAsFlatTextFiles(var.val),
                                   offset, size)), t \o <<"variable[:]">>)
    ELSE Done(Raise("InternalError"), is_var_attribute_trace(self, path))

write(self, path, data, offset) == Done(IntRet(Len(data)), <<>>)

close(self, fh) == Done(None, <<>>)

----------------------------------------------------------------------------
(* The requests                                                            *)

\* path segments: names of the datasets, names that are in none, the
\* reserved names, and names that contain a reserved name
Segs == {<<"t">>, <<"b">>, <<"u">>, <<"n">>, <<"z">>, DATA_REPR, dimensions,
         ndimensions, DATA_REPR2, Trash}

Path1(a) == Slash \o a
Path2(a, b) == Slash \o a \o Slash \o b
Path3(a, b, c) == Slash \o a \o Slash \o b \o Slash \o c

Paths == {Slash}
         \cup {Path1(a) : a \in Segs}
         \cup {Path2(a, b) : a \in Segs, b \in Segs}
         \cup {Path3(<<"t">>, <<"u">>, c) : c \in {<<"z">>, DATA_REPR, Trash}}
         \cup {Slash \o Path1(<<"t">>)}

Sizes == 0..MaxSize
Offsets == 0..MaxOffset
Datas == UNION {[1..k -> {"x"}] : k \in 0..MaxData}
MountTimes == 1..MaxMountTime
Procs == {[uid |-> 0, gid |-> 0], [uid |-> 1000, gid |-> 100]}
\* st_mode words: a file type (none, regular file, directory, symbolic
\* link) and permission bits
FileTypes == {0, 32768, 16384, 40960}
Modes == {ft + perm : ft \in FileTypes, perm \in 0..MaxPerm}

----------------------------------------------------------------------------
(* The state machine: NCFS.__init__, then requests served one at a time    *)
(* (FUSE is run with nothreads=True).                                      *)

Self == [dataset |-> dataset, mount_time |-> mount_time]

Init ==
    /\ dataset \in Datasets
    /\ mount_time \in MountTimes
    /\ proc \in Procs
    /\ call = NoCall
    /\ ret = NoRet
    /\ lookups = <<>>
    /\ mounted = [dataset |-> dataset, mount_time |-> mount_time]

\* serve request c with outcome r, leaving the NCFS object as it is
Serve(c, r) ==
    /\ call = NoCall
    /\ call' = c
    /\ ret' = r.ret
    /\ lookups' = r.trace
    /\ UNCHANGED <<dataset, mount_time, proc, mounted>>

Call_is_var_dir(path) ==
    Serve([NoCall EXCEPT !.op = "is_var_dir", !.path = path],
          Done(BoolRet(is_var_dir(Self, path)), <<"in variables">>))

Call_is_var_data(path) ==
    Serve([NoCall EXCEPT !.op = "is_var_data", !.path = path],
          Done(BoolRet(is_var_data(Self, path)), <<>>))

Call_is_var_dimensions(path) ==
    Serve([NoCall EXCEPT !.op = "is_var_dimensions", !.path = path],
          Done(BoolRet(is_var_dimensions(Self, path)), <<>>))

Call_is_var_attribute(path) ==
    Serve([NoCall EXCEPT !.op = "is_var_attribute", !.path = path],
          Done(BoolRet(is_var_attribute(Self, path)),
               is_var_attribute_trace(Self, path)))

Call_exists(path) ==
    Serve([NoCall EXCEPT !.op = "exists", !.path = path],
          Done(BoolRet(exists(Self, path)), <<>>))

Call_makeIntoDir(mode) ==
    Serve([NoCall EXCEPT !.op = "makeIntoDir", !.mode = mode],
          Done(Stat(makeIntoDir([DefaultStat(Self, proc)
                                    EXCEPT !.st_mode = mode])), <<>>))

Call_getattr(path) ==
    Serve([NoCall EXCEPT !.op = "getattr", !.path = path],
          getattr(Self, proc, path))

Call_readdir(path) ==
    Serve([NoCall EXCEPT !.op = "readdir", !.path = path],
          readdir(Self, path))

Call_open(path) ==
    Serve([NoCall EXCEPT !.op = "open", !.path = path], open(Self, path, 0))

Call_read(path, size, offset) ==
    Serve([NoCall EXCEPT !.op = "read", !.path = path, !.size = size,
                         !.offset = offset],
          read(Self, path, size, offset))

\* a write that stamps the time of the write on the object
Call_write_touch(path, data, offset) ==
    /\ call = NoCall
    /\ call' = [NoCall EXCEPT !.op = "write", !.path = path, !.data = data,
                              !.offset = offset]
    /\ ret' = write(Self, path, data, offset).ret
    /\ lookups' = <<>>
    /\ mount_time' = (mount_time % (MaxMountTime + 1)) + 1
    /\ UNCHANGED <<dataset, proc, mounted>>

Call_write(path, data, offset) ==
    Serve([NoCall EXCEPT !.op = "write", !.path = path, !.data = data,
                         !.offset = offset],
          write(Self, path, data, offset))

Call_close ==
    Serve([NoCall EXCEPT !.op = "close"], close(Self, 0))

\* the reply goes back to the caller; the next request can be served
Reply ==
    /\ call # NoCall
    /\ call' = NoCall
    /\ ret' = NoRet
    /\ lookups' = <<>>
    /\ UNCHANGED <<dataset, mount_time, proc, mounted>>

\* a request arrives only when none is being served
Idle == call = NoCall

Next ==
    \/ Idle /\ \E path \in Paths : Call_is_var_dir(path)
    \/ Idle /\ \E path \in Paths : Call_is_var_data(path)
    \/ Idle /\ \E path \in Paths : Call_is_var_dimensions(path)
    \/ Idle /\ \E path \in Paths : Call_is_var_attribute(path)
    \/ Idle /\ \E path \in Paths : Call_exists(path)
    \/ Idle /\ \E mode \in Modes : Call_makeIntoDir(mode)
    \/ Idle /\ \E path \in Paths : Call_getattr(path)
    \/ Idle /\ \E path \in Paths : Call_readdir(path)
    \/ Idle /\ \E path \in Paths : Call_open(path)
    \/ Idle /\ \E path \in Paths, size \in Sizes, offset \in Offsets :
                   Call_read(path, size, offset)
    \/ Idle /\ \E path \in Paths, data \in Datas, offset \in Offsets :
                   Call_write(path, data, offset)
    \/ Idle /\ Call_close
    \/ Reply

Spec == Init /\ [][Next]_vars

----------------------------------------------------------------------------
(* Vocabulary of the properties                                            *)

VarNameSet == ToSet(VariableNames(dataset))
AttrNameSet(v) == ToSet(ncattrs(VariableOf(dataset, v)))

\* the '/'-separated segments of a path without leading '/'
RECURSIVE Segments(_)
Segments(s) ==
    IF s = <<>> THEN <<>>
    ELSE LET first == split_first(s)
         IN  IF Len(first) = Len(s) THEN <<first>>
             ELSE <<first>> \o Segments(SubSeq(s, Len(first) + 2, Len(s)))

\* the elements [offset, offset + size) of a sequence
Window(full, offset, size) ==
    LET hi == Min(offset + size, Len(full))
    IN  IF hi <= offset THEN <<>> ELSE [i \in 1..(hi - offset) |-> full[offset + i]]

FileType(mode) == BitAnd(mode, 61440)
IsDirStat(r) == r.kind = "stat" /\ FileType(r.val.st_mode) = 16384
IsRegStat(r) == r.kind = "stat" /\ FileType(r.val.st_mode) = 32768
HasBit(mode, bit) == BitAnd(mode, bit) # 0

IsBool(r, b) == r.kind = "bool" /\ r.val = b

\* the full content of the node /v/n of the dataset
ContentOf(v, n) ==
    IF n = DATA_REPR THEN VardataAsFlatTextFiles(VariableOf(dataset, v))
    ELSE AttributesAsTextFiles(getncattr(VariableOf(dataset, v), n))

----------------------------------------------------------------------------
(* C1: for every variable v, "/v" is classified as the directory of v,     *)
(* "/v/DATA_REPR" as its data node, and "/v/x" for every segment x other   *)
(* than exactly DATA_REPR and exactly dimensions as the attribute node     *)
(* (v, x), whatever substrings x has.  (Paths with ".Trash" are left to    *)
(* the blacklist rule and are not constrained here.)                       *)

C1_Classification ==
    \A v \in VarNameSet :
        /\ call.path = Path1(v) =>
              /\ call.op = "is_var_dir" => IsBool(ret, TRUE)
              /\ call.op \in {"is_var_data", "is_var_dimensions",
                              "is_var_attribute"} => IsBool(ret, FALSE)
              /\ call.op = "getattr" => IsDirStat(ret)
        /\ call.path = Path2(v, DATA_REPR) =>
              /\ call.op = "is_var_data" => IsBool(ret, TRUE)
              /\ call.op \in {"is_var_dir", "is_var_dimensions",
                              "is_var_attribute"} => IsBool(ret, FALSE)
        /\ \A x \in Segs \ {DATA_REPR, dimensions} :
              (call.path = Path2(v, x) /\ ~Contains(Trash, x)) =>
                  /\ call.op = "is_var_attribute" => IsBool(ret, TRUE)
                  /\ call.op \in {"is_var_dir", "is_var_data",
                                  "is_var_dimensions"} => IsBool(ret, FALSE)

----------------------------------------------------------------------------
(* C2: makeIntoDir.                                                        *)

ModeIn == call.mode
ModeOut == ret.val.st_mode

\* C2 as stated: for any input word the output has the directory bit, its
\* file type is directory, and per class execute is set iff read was set
\* in the input.
C2_Original ==
    call.op = "makeIntoDir" =>
        /\ HasBit(ModeOut, 16384)
        /\ FileType(ModeOut) = 16384
        /\ \A p \in ToSet(RX_PAIRS) : HasBit(ModeOut, p[2]) <=> HasBit(ModeIn, p[1])

\* C2 amended: for any input word the output has the directory bit; its
\* file type is directory when the input is a regular-file word; and per
\* class execute is set in the output iff the read bit or the execute bit
\* of that class was set in the input.
C2_MakeIntoDir ==
    call.op = "makeIntoDir" =>
        /\ HasBit(ModeOut, 16384)
        /\ FileType(ModeIn) = 32768 => FileType(ModeOut) = 16384
        /\ \A p \in ToSet(RX_PAIRS) :
               HasBit(ModeOut, p[2]) <=> (HasBit(ModeIn, p[1]) \/ HasBit(ModeIn, p[2]))

\* the regular-file word 0o100644 has become the directory word 0o040755
C2_Witness ==
    /\ call.op = "makeIntoDir"
    /\ ModeIn = 33188
    /\ ModeOut = 16877

----------------------------------------------------------------------------
(* C3: for the data node of every variable and the node of every existing  *)
(* attribute, the st_size getattr reports is the length of the full        *)
(* representation, and read(path, size, offset) returns the elements       *)
(* [offset, offset + size) of it.                                          *)

C3_SizeAndWindows ==
    \A v \in VarNameSet : \A n \in AttrNameSet(v) \cup {DATA_REPR} :
        call.path = Path2(v, n) =>
            /\ call.op = "getattr" =>
                  /\ ret.kind = "stat"
                  /\ ret.val.st_size = Len(ContentOf(v, n))
            /\ call.op = "read" =>
                  /\ ret.kind = "str"
                  /\ ret.val = Window(ContentOf(v, n), call.offset, call.size)

----------------------------------------------------------------------------
(* C4: getattr on a path that contains ".Trash" returns the regular-file   *)
(* stub record and makes no access to the dataset.                         *)

C4_Blacklisted ==
    (call.op = "getattr" /\ Contains(Trash, call.path)) =>
        /\ ret.kind = "stat"
        /\ ret.val = [st_atime |-> mount_time, st_ctime |-> mount_time,
                      st_gid |-> proc.gid, st_mode |-> 33188,
                      st_mtime |-> mount_time, st_nlink |-> 1,
                      st_size |-> 4096, st_uid |-> proc.uid]
        /\ lookups = <<>>

\* getattr has answered for ".Trash" under a variable of the dataset
C4_Witness ==
    /\ call.op = "getattr"
    /\ \E v \in VarNameSet : call.path = Path2(v, Trash)
    /\ IsRegStat(ret)

----------------------------------------------------------------------------
(* C5: readdir("/") returns ".", ".." and the variable names; readdir of   *)
(* a variable directory returns ".", "..", the attribute names of the      *)
(* variable and DATA_REPR ("dimensions" only if it is an attribute name);  *)
(* the entries are those of the dataset as mounted, at every call.         *)

C5_Listing ==
    call.op = "readdir" =>
        LET ds == mounted.dataset
        IN  /\ call.path = Slash =>
                  /\ ret.kind = "list"
                  /\ ToSet(ret.val) = {Dot, DotDot}
                                      \cup {ds[i].name : i \in DOMAIN ds}
            /\ \A i \in DOMAIN ds :
                  call.path = Path1(ds[i].name) =>
                      /\ ret.kind = "list"
                      /\ ToSet(ret.val) =
                            {Dot, DotDot, DATA_REPR}
                            \cup {ds[i].attrs[j].name : j \in DOMAIN ds[i].attrs}

\* a variable directory with an attribute has been listed
C5_Witness ==
    /\ call.op = "readdir"
    /\ call.path = Path1(<<"b">>)
    /\ ret.kind = "list"
    /\ ToSet(ret.val) = {Dot, DotDot, <<"n">>, DATA_REPR}

----------------------------------------------------------------------------
(* C6: open fails with the invalid-operation error (FuseOSError) for every *)
(* path that getattr reports as a directory, the root and the variable     *)
(* directories, and returns no handle for it.                              *)

C6_OpenDirectoryFails ==
    (call.op = "open" /\ IsDirStat(getattr(Self, proc, call.path).ret)) =>
        /\ ret.kind = "raise"
        /\ ret.val = "FuseOSError"

----------------------------------------------------------------------------
(* C7: a path that resolves to nothing (unknown first segment, an          *)
(* attribute the variable does not have, more than two segments) does not  *)
(* exist: exists is false for it and getattr raises ENOENT; exists is true *)
(* for a variable directory and for the node of an existing attribute.     *)
(* (Paths with ".Trash" are left to the blacklist rule.)                   *)

Unresolved(path) ==
    LET segs == Segments(lstrip(path))
    IN  /\ segs # <<>>
        /\ ~Contains(Trash, path)
        /\ \/ segs[1] \notin VarNameSet
           \/ Len(segs) > 2
           \/ /\ Len(segs) = 2
              /\ segs[2] \notin AttrNameSet(segs[1]) \cup {DATA_REPR, dimensions}

C7_NotFound ==
    /\ (call.op = "exists" /\ Unresolved(call.path)) => IsBool(ret, FALSE)
    /\ (call.op = "getattr" /\ Unresolved(call.path)) =>
           (ret.kind = "raise" /\ ret.val = "ENOENT")
    /\ \A v \in VarNameSet :
           (call.op = "exists"
            /\ call.path \in {Path1(v)} \cup {Path2(v, a) : a \in AttrNameSet(v)})
               => IsBool(ret, TRUE)

----------------------------------------------------------------------------
(* C8: write returns the length of the data and changes nothing: at every  *)
(* point of a session the object is as it was at mount, and getattr,       *)
(* readdir and read return what they return on the object as mounted.      *)

C8_WriteDiscarded ==
    LET self0 == [dataset |-> mounted.dataset, mount_time |-> mounted.mount_time]
    IN  /\ dataset = mounted.dataset
        /\ mount_time = mounted.mount_time
        /\ call.op = "write" => (ret.kind = "int" /\ ret.val = Len(call.data))
        /\ call.op = "getattr" => ret = getattr(self0, proc, call.path).ret
        /\ call.op = "readdir" => ret = readdir(self0, call.path).ret
        /\ call.op = "read" =>
               ret = read(self0, call.path, call.size, call.offset).ret

\* a write of two bytes to a data node has been accepted
C8_Witness ==
    /\ call.op = "write"
    /\ \E v \in VarNameSet : call.path = Path2(v, DATA_REPR)
    /\ Len(call.data) = 2
    /\ ret.kind = "int" /\ ret.val = 2

----------------------------------------------------------------------------
(* C9: getattr never raises InternalError for a path made of a variable    *)
(* name optionally followed by one further segment.                        *)

C9_NoInternalError ==
    \A v \in VarNameSet :
        (call.op = "getattr"
         /\ call.path \in {Path1(v)} \cup {Path2(v, x) : x \in Segs})
            => ~(ret.kind = "raise" /\ ret.val = "InternalError")

----------------------------------------------------------------------------
(* C10: every name readdir lists, other than "." and "..", can be stat'ed  *)
(* at its full path: the entries of "/" are directories, the entries of a  *)
(* variable directory are regular files whose size is the length of their  *)
(* content.                                                                *)

Listed(path) == ToSet(readdir(Self, path).ret.val) \ {Dot, DotDot}

C10_ListingStatAgree ==
    call.op = "getattr" =>
        /\ \A n \in Listed(Slash) : call.path = Path1(n) => IsDirStat(ret)
        /\ \A v \in VarNameSet : \A n \in Listed(Path1(v)) :
               call.path = Path2(v, n) =>
                   /\ IsRegStat(ret)
                   /\ ret.val.st_size = Len(ContentOf(v, n))

====
